---- MODULE Spec2Model ----
(***************************************************************************)
(* Sales dashboards of streamlit-dashboard: dashboard.py and tra.py.       *)
(*                                                                         *)
(* Both are Streamlit scripts: every interaction with a sidebar widget     *)
(* re-executes the whole script top to bottom (load, join, normalise,      *)
(* sidebar, filter, aggregate).  One action of the model is one such       *)
(* execution.  The state is the input tables, the values held by the       *)
(* widgets and the values the last execution bound to the script's names.  *)
(*                                                                         *)
(* Encodings.  A text cell is a sequence of one-character strings, and a   *)
(* missing text cell is NaNTexto, which is no such sequence.  A numeric    *)
(* cell that can be missing is a sequence of length at most one, NaN when  *)
(* empty.  A timestamp is [dia, hora]: dia is the calendar day (days are   *)
(* numbered from the last day of month 1, months have two days), hora is 0 *)
(* at midnight and 1 later in the day.  Amounts are integers, so the       *)
(* rounding of float sums is not modelled.  A mean is the pair             *)
(* <<sum, count>>, NaN when count is 0.                                    *)
(*                                                                         *)
(* Scope.  The identifiers of the files are text and every cell of the     *)
(* three files is present: the only missing cells are the ones a left join *)
(* makes.  The map section of both scripts is modelled only by the         *)
(* exception it raises on an empty view; the charts other than the         *)
(* category rollup and the stock chart are not modelled.                   *)
(***************************************************************************)
EXTENDS Integers, Sequences, FiniteSets, TLC

VARIABLES
    app,                        \* which script runs: "dashboard" or "tra"
    transacciones,              \* rows of df_transacciones.csv
    estado,                     \* how far the last execution got
    datos_comb,                 \* the joined table the loader returns
    df,                         \* the table the sidebar and the filter read
    fechas_seleccionadas,       \* date_input: <<start day, end day>>
    categorias_seleccionadas,   \* multiselect
    segmentos_seleccionados,    \* multiselect (dashboard.py only)
    metodo_pago_seleccionado,   \* multiselect (dashboard.py only)
    df_filtrado,                \* the Filtered View
    ventas_totales,
    ventas_mensuales,
    clientes_unicos,
    tasa_retencion,
    datos_mensuales,
    ventas_por_categoria,
    stock_categoria,
    ventas,                     \* argument of obtener_color
    color                       \* its result

vars == <<app, transacciones, estado, datos_comb, df, fechas_seleccionadas,
          categorias_seleccionadas, segmentos_seleccionados,
          metodo_pago_seleccionado, df_filtrado, ventas_totales,
          ventas_mensuales, clientes_unicos, tasa_retencion, datos_mensuales,
          ventas_por_categoria, stock_categoria, ventas, color>>

(***************************************************************************)
(* Bounds of the model.                                                    *)
(***************************************************************************)
MaxTx == 3          \* rows in df_transacciones.csv
MaxDay == 4         \* last calendar day a transaction can carry
ColorSpread == 12   \* how far around each threshold obtener_color is tried

\* a missing number, and the mean of nothing
NaN == <<>>
\* a missing text cell
NaNTexto == <<"nan">>

(***************************************************************************)
(* Text: str.strip, str.lower and string.capwords.                         *)
(***************************************************************************)
Minusculas == <<"a", "b", "e", "t", "x", "y">>
Mayusculas == <<"A", "B", "E", "T", "X", "Y">>

lower_char(c) ==
    IF \E i \in DOMAIN Mayusculas : Mayusculas[i] = c
    THEN Minusculas[CHOOSE i \in DOMAIN Mayusculas : Mayusculas[i] = c]
    ELSE c

upper_char(c) ==
    IF \E i \in DOMAIN Minusculas : Minusculas[i] = c
    THEN Mayusculas[CHOOSE i \in DOMAIN Minusculas : Minusculas[i] = c]
    ELSE c

RECURSIVE lstrip(_)
lstrip(s) == IF s # <<>> /\ Head(s) = " " THEN lstrip(Tail(s)) ELSE s

RECURSIVE rstrip(_)
rstrip(s) ==
    IF s # <<>> /\ s[Len(s)] = " " THEN rstrip(SubSeq(s, 1, Len(s) - 1)) ELSE s

strip(s) == rstrip(lstrip(s))

lower(s) == [i \in DOMAIN s |-> lower_char(s[i])]

capitalize(w) ==
    [i \in DOMAIN w |-> IF i = 1 THEN upper_char(w[i]) ELSE lower_char(w[i])]

\* str.split() with no separator: the maximal runs of non-blank characters.
RECURSIVE split(_, _)
split(s, word) ==
    IF s = <<>> THEN (IF word = <<>> THEN <<>> ELSE <<word>>)
    ELSE IF Head(s) = " "
         THEN (IF word = <<>> THEN <<>> ELSE <<word>>) \o split(Tail(s), <<>>)
         ELSE split(Tail(s), Append(word, Head(s)))

RECURSIVE join(_)
join(words) ==
    IF words = <<>> THEN <<>>
    ELSE IF Len(words) = 1 THEN Head(words)
    ELSE Head(words) \o <<" ">> \o join(Tail(words))

capwords(s) ==
    LET words == split(s, <<>>)
    IN join([i \in DOMAIN words |-> capitalize(words[i])])

\* df[col].str.strip().str.lower().apply(capwords) on one cell
normalizar(s) == capwords(lower(strip(s)))

(***************************************************************************)
(* The three input files.                                                  *)
(***************************************************************************)
\* df_productos.csv: producto_id is unique
productos ==
    << [producto_id |-> "P1", categoria |-> <<" ", "a">>, stock |-> <<1>>],
       [producto_id |-> "P2", categoria |-> <<"A">>,      stock |-> <<3>>],
       [producto_id |-> "P3", categoria |-> <<"b", "B">>, stock |-> <<2>>] >>

\* df_clientes.csv: cliente_id is unique
clientes ==
    << [cliente_id |-> "C1", segmento |-> <<"x">>],
       [cliente_id |-> "C2", segmento |-> <<"Y", " ">>] >>

\* what a left join puts in the columns of the side with no match
SinProducto == [categoria |-> NaNTexto, stock |-> NaN]
SinCliente == [segmento |-> NaNTexto]

TxBase ==
    [fecha |-> [dia |-> 1, hora |-> 0], cliente_id |-> "C1",
     producto_id |-> "P1", total |-> 1, metodo_pago |-> <<"e">>]

\* Rows a transactions file is made of: the base row with its timestamp, its
\* customer, its product, or its amount and payment method varied.
Fechas ==
    {[dia |-> 1, hora |-> 0], [dia |-> 1, hora |-> 1], [dia |-> 2, hora |-> 0],
     [dia |-> MaxDay, hora |-> 1]}
TxFechas == {[TxBase EXCEPT !.fecha = f] : f \in Fechas}
TxClientes == {[TxBase EXCEPT !.cliente_id = c] : c \in {"C1", "C2", "C9"}}
TxProductos ==
    {[TxBase EXCEPT !.producto_id = p] : p \in {"P1", "P2", "P3", "P9"}}
TxPagos ==
    {[TxBase EXCEPT !.total = 2], [TxBase EXCEPT !.metodo_pago = <<"T">>]}
TxRows == TxFechas \cup TxClientes \cup TxProductos \cup TxPagos

\* The files tried list their transactions chronologically, rows with the same
\* timestamp in one fixed order: no step of either script reads the order of
\* the rows.
Indice(s, x) == CHOOSE i \in DOMAIN s : s[i] = x
rango(r) ==
    LET c == Indice(<<"C1", "C2", "C9">>, r.cliente_id)
        p == Indice(<<"P1", "P2", "P3", "P9">>, r.producto_id)
        m == Indice(<<(<<"e">>), (<<"T">>)>>, r.metodo_pago)
    IN ((((r.fecha.dia * 2 + r.fecha.hora) * 4 + c) * 4 + p) * 4 + r.total) * 4 + m

RECURSIVE Tablas(_)
Tablas(n) ==
    IF n = 0 THEN {<<>>}
    ELSE LET menores == Tablas(n - 1)
         IN menores \cup
            {Append(t, r) :
                <<t, r>> \in {<<t, r>> \in {m \in menores : Len(m) = n - 1} \X TxRows :
                                 t = <<>> \/ rango(t[Len(t)]) <= rango(r)}}

\* pd.read_csv('df_transacciones.csv'): the row's position is its transaccion_id
read_transacciones(filas) ==
    [i \in DOMAIN filas |-> filas[i] @@ [transaccion_id |-> i]]

(***************************************************************************)
(* Loader and joiner.                                                      *)
(***************************************************************************)
\* pd.merge(left, right, on=on, how=how): each left row, in order, once per
\* right row with the same key; with how="left" a left row with no match is
\* kept with the right side's columns missing, with how="inner" it is dropped.
RECURSIVE merge(_, _, _, _, _)
merge(left, right, on, how, sin) ==
    IF left = <<>> THEN <<>>
    ELSE LET l == Head(left)
             m == SelectSeq(right, LAMBDA r : r[on] = l[on])
             filas == IF m = <<>>
                      THEN (IF how = "left" THEN <<l @@ sin>> ELSE <<>>)
                      ELSE [i \in DOMAIN m |-> l @@ m[i]]
         IN filas \o merge(Tail(left), right, on, how, sin)

\* dashboard.py
load_data(filas) ==
    merge(merge(read_transacciones(filas), productos, "producto_id", "left",
                SinProducto),
          clientes, "cliente_id", "left", SinCliente)

\* tra.py: DataFrame.merge with no how= is an inner join
cargar_datos(filas) ==
    merge(merge(read_transacciones(filas), clientes, "cliente_id", "inner",
                SinCliente),
          productos, "producto_id", "inner", SinProducto)

\* dashboard.py lines 48-50 raise on a missing cell: Series.apply hands
\* capwords the float NaN, which has no split().
normaliza_sin_error(t) ==
    \A i \in DOMAIN t :
        /\ t[i].categoria # NaNTexto
        /\ t[i].segmento # NaNTexto
        /\ t[i].metodo_pago # NaNTexto

normalizar_columnas(t) ==
    [i \in DOMAIN t |->
        [t[i] EXCEPT !.categoria = normalizar(@),
                     !.segmento = normalizar(@),
                     !.metodo_pago = normalizar(@)]]

(***************************************************************************)
(* Sidebar.                                                                *)
(***************************************************************************)
Min(S) == CHOOSE x \in S : \A y \in S : x <= y
Max(S) == CHOOSE x \in S : \A y \in S : y <= x

fecha_min(t) == Min({t[i].fecha.dia : i \in DOMAIN t})
fecha_max(t) == Max({t[i].fecha.dia : i \in DOMAIN t})

categorias_disponibles(t) == {t[i].categoria : i \in DOMAIN t}
segmentos(t) == {t[i].segmento : i \in DOMAIN t}
\* df['metodo_pago'].dropna().unique()
metodos_disponibles(t) == {t[i].metodo_pago : i \in DOMAIN t} \ {NaNTexto}

(***************************************************************************)
(* Filter.                                                                 *)
(***************************************************************************)
\* isin with an empty selection read as "no filter"
isin_sin_filtro(v, values) == values = {} \/ v \in values

\* Series.isin(values)
isin(v, values) == v \in values

\* pd.to_datetime(date): midnight of that day
to_datetime(d) == [dia |-> d, hora |-> 0]

\* Timestamp comparison
ts_le(a, b) == a.dia < b.dia \/ (a.dia = b.dia /\ a.hora <= b.hora)

\* dashboard.py: the dates are compared as calendar dates (.dt.date)
condicion_filtro(r, f, cs, ss, ms) ==
    /\ r.fecha.dia >= f[1]
    /\ r.fecha.dia <= f[2]
    /\ isin(r.categoria, cs)
    /\ isin(r.segmento, ss)
    /\ isin(r.metodo_pago, ms)

\* tra.py: the timestamps are compared with midnight of the selected days
condicion_tra(r, f, cs) ==
    /\ ts_le(to_datetime(f[1]), r.fecha)
    /\ ts_le(r.fecha, to_datetime(f[2]))
    /\ isin(r.categoria, cs)

filtrar(t, f, cs, ss, ms) ==
    IF app = "dashboard"
    THEN SelectSeq(t, LAMBDA r : condicion_filtro(r, f, cs, ss, ms))
    ELSE SelectSeq(t, LAMBDA r : condicion_tra(r, f, cs))

(***************************************************************************)
(* Aggregator.                                                             *)
(***************************************************************************)
RECURSIVE sum_total(_)
sum_total(t) == IF t = <<>> THEN 0 ELSE Head(t).total + sum_total(Tail(t))

RECURSIVE sum_seq(_)
sum_seq(s) == IF s = <<>> THEN 0 ELSE Head(s) + sum_seq(Tail(s))

\* Series.mean(): NaN for an empty series
mean(s) == IF s = <<>> THEN NaN ELSE <<sum_seq(s), Len(s)>>

\* the two-day months of the model's calendar
mes_de(d) == (d \div 2) + 1

RECURSIVE ordenar(_)
ordenar(S) == IF S = {} THEN <<>> ELSE <<Min(S)>> \o ordenar(S \ {Min(S)})

\* monthly bins for the months that have a row only
meses_presentes(t) == ordenar({mes_de(t[i].fecha.dia) : i \in DOMAIN t})

\* groupby(pd.Grouper(key='fecha', freq='ME')) and resample('M', on='fecha'):
\* the bins are the month ends from the first to the last month of the table
meses_grouper(t) ==
    IF t = <<>> THEN <<>>
    ELSE LET ms == {mes_de(t[i].fecha.dia) : i \in DOMAIN t}
         IN [i \in 1..(Max(ms) - Min(ms) + 1) |-> Min(ms) + i - 1]

del_mes(t, m) == SelectSeq(t, LAMBDA r : mes_de(r.fecha.dia) = m)

\* ...['total'].sum()
ventas_por_mes(t) ==
    LET ms == meses_grouper(t)
    IN [i \in DOMAIN ms |-> sum_total(del_mes(t, ms[i]))]

\* ....agg({'total': 'sum', 'transaccion_id': 'count'})
agg_mensual(t) ==
    LET ms == meses_grouper(t)
    IN [i \in DOMAIN ms |->
           [fecha |-> ms[i],
            total |-> sum_total(del_mes(t, ms[i])),
            numero_transacciones |-> Len(del_mes(t, ms[i]))]]

\* tra.py: resample('M', on='fecha').agg({'total': 'sum'})
resample_mensual(t) ==
    LET ms == meses_grouper(t)
    IN [i \in DOMAIN ms |->
           [fecha |-> ms[i], total |-> sum_total(del_mes(t, ms[i]))]]

nunique_clientes(t) == Cardinality({t[i].cliente_id : i \in DOMAIN t})

\* df_filtrado['cliente_id'].value_counts(), groupby('cliente_id').size()
value_counts(t) ==
    [c \in {t[i].cliente_id : i \in DOMAIN t} |->
        Cardinality({i \in DOMAIN t : t[i].cliente_id = c})]

\* retention counting the customers with at least one purchase
retencion_desde_uno(t) ==
    LET vc == value_counts(t)
    IN IF DOMAIN vc = {} THEN NaN
       ELSE <<100 * Cardinality({c \in DOMAIN vc : vc[c] >= 1}),
              Cardinality(DOMAIN vc)>>

\* (compras_por_cliente > 1).mean() * 100
retencion(t) ==
    LET vc == value_counts(t)
    IN IF DOMAIN vc = {} THEN NaN
       ELSE <<100 * Cardinality({c \in DOMAIN vc : vc[c] > 1}),
              Cardinality(DOMAIN vc)>>

\* category rollup taking the first amount of each category, not the sum
groupby_categoria_first(t) ==
    [c \in {t[i].categoria : i \in DOMAIN t} \ {NaNTexto} |->
        Head(SelectSeq(t, LAMBDA r : r.categoria = c)).total]

\* groupby('categoria')['total'].sum(): missing keys are left out
groupby_categoria_sum(t) ==
    [c \in {t[i].categoria : i \in DOMAIN t} \ {NaNTexto} |->
        sum_total(SelectSeq(t, LAMBDA r : r.categoria = c))]

RECURSIVE sum_stock(_)
sum_stock(t) ==
    IF t = <<>> THEN 0
    ELSE (IF Head(t).stock = NaN THEN 0 ELSE Head(t).stock[1])
         + sum_stock(Tail(t))

\* groupby('categoria')['stock'].mean(): the mean over the view's rows
groupby_categoria_stock(t) ==
    [c \in {t[i].categoria : i \in DOMAIN t} \ {NaNTexto} |->
        LET filas == SelectSeq(t, LAMBDA r : r.categoria = c /\ r.stock # NaN)
        IN IF filas = <<>> THEN NaN ELSE <<sum_stock(filas), Len(filas)>>]

(***************************************************************************)
(* Severity colour.                                                        *)
(***************************************************************************)
\* thresholds read as "at least"
obtener_color_ge(v) ==
    IF v >= 1000000 THEN "#ff0000"
    ELSE IF v >= 500000 THEN "#ff6600"
    ELSE IF v >= 100000 THEN "#ffcc00"
    ELSE "#33cc33"

obtener_color(v) ==
    IF v > 1000000 THEN "#ff0000"
    ELSE IF v > 500000 THEN "#ff6600"
    ELSE IF v > 100000 THEN "#ffcc00"
    ELSE "#33cc33"

(***************************************************************************)
(* One execution of the script.                                            *)
(***************************************************************************)
\* the table the loader of the running script returns
cargar == IF app = "dashboard" THEN load_data(transacciones)
          ELSE cargar_datos(transacciones)

SinEjecutar ==
    /\ df' = <<>>
    /\ df_filtrado' = <<>>
    /\ ventas_totales' = 0
    /\ ventas_mensuales' = NaN
    /\ clientes_unicos' = 0
    /\ tasa_retencion' = NaN
    /\ datos_mensuales' = <<>>
    /\ ventas_por_categoria' = <<>>
    /\ stock_categoria' = <<>>

\* From the filter to the end of the script, on the table t with the widgets
\* holding f, cs, ss and ms.  folium.Map raises on the NaN centre of an empty
\* view: dashboard.py stops there, before the category charts; tra.py has
\* computed everything by then.
Filtrar_y_agregar(t, f, cs, ss, ms) ==
    LET v == filtrar(t, f, cs, ss, ms)
    IN /\ df' = t
       /\ df_filtrado' = v
       /\ ventas_totales' = sum_total(v)
       /\ clientes_unicos' = nunique_clientes(v)
       /\ tasa_retencion' = retencion(v)
       /\ IF app = "dashboard"
          THEN /\ ventas_mensuales' = mean(ventas_por_mes(v))
               /\ datos_mensuales' = agg_mensual(v)
          ELSE /\ ventas_mensuales' = NaN
               /\ datos_mensuales' = resample_mensual(v)
       /\ IF v = <<>>
          THEN /\ estado' = "error_mapa"
               /\ ventas_por_categoria' = <<>>
               /\ stock_categoria' = <<>>
          ELSE /\ estado' = "ok"
               /\ IF app = "dashboard"
                  THEN /\ ventas_por_categoria' = groupby_categoria_sum(v)
                       /\ stock_categoria' = groupby_categoria_stock(v)
                  ELSE /\ ventas_por_categoria' = <<>>
                       /\ stock_categoria' = <<>>

Init ==
    /\ app \in {"dashboard", "tra"}
    /\ transacciones \in Tablas(MaxTx) \ {<<>>}
    /\ estado = "inicio"
    /\ datos_comb = <<>>
    /\ df = <<>>
    /\ fechas_seleccionadas = <<>>
    /\ categorias_seleccionadas = {}
    /\ segmentos_seleccionados = {}
    /\ metodo_pago_seleccionado = {}
    /\ df_filtrado = <<>>
    /\ ventas_totales = 0
    /\ ventas_mensuales = NaN
    /\ clientes_unicos = 0
    /\ tasa_retencion = NaN
    /\ datos_mensuales = <<>>
    /\ ventas_por_categoria = <<>>
    /\ stock_categoria = <<>>
    /\ ventas = 0
    /\ color = ""

\* The first execution: every widget takes its default, the full range and
\* every option.  dashboard.py stops at lines 48-50 when a text cell is
\* missing; with no row to take the first date from, date_input raises.
PrimeraEjecucion ==
    /\ estado = "inicio"
    /\ UNCHANGED <<app, transacciones, ventas, color>>
    /\ LET c == cargar
       IN /\ datos_comb' = c
          /\ IF app = "dashboard" /\ ~normaliza_sin_error(c)
             THEN /\ estado' = "error_normalizar"
                  /\ SinEjecutar
                  /\ UNCHANGED <<fechas_seleccionadas,
                                 categorias_seleccionadas,
                                 segmentos_seleccionados,
                                 metodo_pago_seleccionado>>
             ELSE IF c = <<>>
             THEN /\ estado' = "error_sidebar"
                  /\ SinEjecutar
                  /\ UNCHANGED <<fechas_seleccionadas,
                                 categorias_seleccionadas,
                                 segmentos_seleccionados,
                                 metodo_pago_seleccionado>>
             ELSE LET t == IF app = "dashboard" THEN normalizar_columnas(c)
                           ELSE c
                      f == <<fecha_min(t), fecha_max(t)>>
                      cs == categorias_disponibles(t)
                      ss == IF app = "dashboard" THEN segmentos(t) ELSE {}
                      ms == IF app = "dashboard" THEN metodos_disponibles(t)
                            ELSE {}
                  IN /\ fechas_seleccionadas' = f
                     /\ categorias_seleccionadas' = cs
                     /\ segmentos_seleccionados' = ss
                     /\ metodo_pago_seleccionado' = ms
                     /\ Filtrar_y_agregar(t, f, cs, ss, ms)

\* A later execution loads the same files again and gets the table df again.
Ejecutado == estado \in {"ok", "error_mapa"}

\* The user picks another date range (within min_value..max_value) and the
\* script runs again.
CambiarFechas ==
    /\ Ejecutado
    /\ \E d1 \in fecha_min(df)..fecha_max(df) :
       \E d2 \in d1..fecha_max(df) :
          /\ <<d1, d2>> # fechas_seleccionadas
          /\ fechas_seleccionadas' = <<d1, d2>>
          /\ Filtrar_y_agregar(df, <<d1, d2>>, categorias_seleccionadas,
                               segmentos_seleccionados,
                               metodo_pago_seleccionado)
    /\ UNCHANGED <<app, transacciones, datos_comb, categorias_seleccionadas,
                   segmentos_seleccionados, metodo_pago_seleccionado,
                   ventas, color>>

CambiarCategorias ==
    /\ Ejecutado
    /\ \E cs \in SUBSET categorias_disponibles(df) :
          /\ cs # categorias_seleccionadas
          /\ categorias_seleccionadas' = cs
          /\ Filtrar_y_agregar(df, fechas_seleccionadas, cs,
                               segmentos_seleccionados,
                               metodo_pago_seleccionado)
    /\ UNCHANGED <<app, transacciones, datos_comb, fechas_seleccionadas,
                   segmentos_seleccionados, metodo_pago_seleccionado,
                   ventas, color>>

CambiarSegmentos ==
    /\ Ejecutado
    /\ app = "dashboard"
    /\ \E ss \in SUBSET segmentos(df) :
          /\ ss # segmentos_seleccionados
          /\ segmentos_seleccionados' = ss
          /\ Filtrar_y_agregar(df, fechas_seleccionadas, categorias_seleccionadas,
                               ss, metodo_pago_seleccionado)
    /\ UNCHANGED <<app, transacciones, datos_comb, fechas_seleccionadas,
                   categorias_seleccionadas, metodo_pago_seleccionado,
                   ventas, color>>

CambiarMetodoPago ==
    /\ Ejecutado
    /\ app = "dashboard"
    /\ \E ms \in SUBSET metodos_disponibles(df) :
          /\ ms # metodo_pago_seleccionado
          /\ metodo_pago_seleccionado' = ms
          /\ Filtrar_y_agregar(df, fechas_seleccionadas, categorias_seleccionadas,
                               segmentos_seleccionados, ms)
    /\ UNCHANGED <<app, transacciones, datos_comb, fechas_seleccionadas,
                   categorias_seleccionadas, segmentos_seleccionados,
                   ventas, color>>

Next ==
    \/ PrimeraEjecucion
    \/ CambiarFechas
    \/ CambiarCategorias
    \/ CambiarSegmentos
    \/ CambiarMetodoPago

Spec == Init /\ [][Next]_vars

(***************************************************************************)
(* obtener_color on its own: the sales totals around each threshold.       *)
(***************************************************************************)
Umbrales == {100000, 500000, 1000000}

VentasColor ==
    {0} \cup {u + k : u \in Umbrales, k \in (0 - ColorSpread)..ColorSpread}

InitColor ==
    /\ app = "dashboard"
    /\ transacciones = <<>>
    /\ estado = "color"
    /\ datos_comb = <<>>
    /\ df = <<>>
    /\ fechas_seleccionadas = <<>>
    /\ categorias_seleccionadas = {}
    /\ segmentos_seleccionados = {}
    /\ metodo_pago_seleccionado = {}
    /\ df_filtrado = <<>>
    /\ ventas_totales = 0
    /\ ventas_mensuales = NaN
    /\ clientes_unicos = 0
    /\ tasa_retencion = NaN
    /\ datos_mensuales = <<>>
    /\ ventas_por_categoria = <<>>
    /\ stock_categoria = <<>>
    /\ ventas \in VentasColor
    /\ color = ""

Colorear ==
    /\ estado = "color"
    /\ color = ""
    /\ color' = obtener_color(ventas)
    /\ UNCHANGED <<app, transacciones, estado, datos_comb, df,
                   fechas_seleccionadas, categorias_seleccionadas,
                   segmentos_seleccionados, metodo_pago_seleccionado,
                   df_filtrado, ventas_totales, ventas_mensuales,
                   clientes_unicos, tasa_retencion, datos_mensuales,
                   ventas_por_categoria, stock_categoria, ventas>>

NextColor == Colorear

SpecColor == InitColor /\ [][NextColor]_vars

(***************************************************************************)
(* Properties.                                                             *)
(***************************************************************************)
Dashboard == app = "dashboard"

\* the widgets hold the defaults of the sidebar: full range, every option
EnDefaults ==
    /\ fechas_seleccionadas = <<fecha_min(df), fecha_max(df)>>
    /\ categorias_seleccionadas = categorias_disponibles(df)
    /\ Dashboard => /\ segmentos_seleccionados = segmentos(df)
                    /\ metodo_pago_seleccionado = metodos_disponibles(df)

\* the calendar day of a row lies in the selected range, ends included
EnRango(r) ==
    /\ fechas_seleccionadas[1] <= r.fecha.dia
    /\ r.fecha.dia <= fechas_seleccionadas[2]

\* a row passes every membership filter the running script has
EnSelecciones(r) ==
    /\ r.categoria \in categorias_seleccionadas
    /\ Dashboard => /\ r.segmento \in segmentos_seleccionados
                    /\ r.metodo_pago \in metodo_pago_seleccionado

RECURSIVE suma_valores(_)
suma_valores(f) ==
    IF DOMAIN f = {} THEN 0
    ELSE LET c == CHOOSE c \in DOMAIN f : TRUE
         IN f[c] + suma_valores([d \in DOMAIN f \ {c} |-> f[d]])

ClientesVista == {df_filtrado[i].cliente_id : i \in DOMAIN df_filtrado}
ComprasDe(c) ==
    Cardinality({i \in DOMAIN df_filtrado : df_filtrado[i].cliente_id = c})

MesesVista == {mes_de(df_filtrado[i].fecha.dia) : i \in DOMAIN df_filtrado}
FilasMes(m) == {i \in DOMAIN df_filtrado : mes_de(df_filtrado[i].fecha.dia) = m}
VentasMes(m) == sum_total(del_mes(df_filtrado, m))

\* C1: the joined table of the loader has exactly one row per transaction of
\* the file, in the file's order, and a transaction whose product or customer
\* has no match is kept with that side's columns missing.
C1_OneRowPerTransaction ==
    estado \notin {"inicio", "color"} =>
        /\ Len(datos_comb) = Len(transacciones)
        /\ \A i \in DOMAIN datos_comb :
              /\ datos_comb[i].transaccion_id = i
              /\ datos_comb[i].producto_id = transacciones[i].producto_id
              /\ datos_comb[i].cliente_id = transacciones[i].cliente_id
              /\ datos_comb[i].producto_id = "P9" =>
                     datos_comb[i].categoria = NaNTexto
              /\ datos_comb[i].cliente_id = "C9" =>
                     datos_comb[i].segmento = NaNTexto

\* C2: obtener_color gives the critical colour exactly above 1,000,000, the
\* high colour exactly in (500,000, 1,000,000], the medium colour exactly in
\* (100,000, 500,000] and the low colour exactly up to 100,000.
C2_StrictThresholds ==
    color # "" =>
        /\ color \in {"#ff0000", "#ff6600", "#ffcc00", "#33cc33"}
        /\ color = "#ff0000" <=> ventas > 1000000
        /\ color = "#ff6600" <=> (500000 < ventas /\ ventas <= 1000000)
        /\ color = "#ffcc00" <=> (100000 < ventas /\ ventas <= 500000)
        /\ color = "#33cc33" <=> ventas <= 100000

C2_Witness == ventas = 1000000 /\ color = "#ff6600"

\* C3: with every widget at its default (the full date range and every
\* option selected) the Filtered View is the whole joined table.
C3_DefaultsKeepEverything ==
    (Ejecutado /\ EnDefaults) => df_filtrado = df

\* C4: an empty selection in any membership filter the script has gives a
\* Filtered View with no rows, whatever the other widgets hold.
C4_EmptySelectionEmptyView ==
    (/\ Ejecutado
     /\ \/ categorias_seleccionadas = {}
        \/ Dashboard /\ segmentos_seleccionados = {}
        \/ Dashboard /\ metodo_pago_seleccionado = {})
    => df_filtrado = <<>>

C4_Witness ==
    /\ Ejecutado
    /\ Dashboard
    /\ Len(df) = MaxTx
    /\ fechas_seleccionadas = <<fecha_min(df), fecha_max(df)>>
    /\ categorias_seleccionadas = categorias_disponibles(df)
    /\ segmentos_seleccionados = segmentos(df)
    /\ metodo_pago_seleccionado = {}
    /\ df_filtrado = <<>>

\* C5: total sales of the Filtered View equal the sum of the per-category
\* totals of the category rollup.
C5_TotalIsSumOfCategories ==
    (estado = "ok" /\ Dashboard) =>
        ventas_totales = suma_valores(ventas_por_categoria)

C5_Witness ==
    /\ estado = "ok"
    /\ Dashboard
    /\ Cardinality(DOMAIN ventas_por_categoria) = 2
    /\ Len(df_filtrado) = MaxTx
    /\ ventas_totales > MaxTx

\* C6: with at least one customer in the Filtered View the retention rate is
\* a percentage between 0 and 100, and it is 0 when every customer of the view
\* has exactly one transaction in it.
C6_RetentionRange ==
    (Ejecutado /\ ClientesVista # {}) =>
        /\ tasa_retencion # NaN
        /\ 0 <= tasa_retencion[1]
        /\ tasa_retencion[1] <= 100 * tasa_retencion[2]
        /\ (\A c \in ClientesVista : ComprasDe(c) = 1) => tasa_retencion[1] = 0

C6_Witness ==
    /\ Ejecutado
    /\ Cardinality(ClientesVista) = 2
    /\ \A c \in ClientesVista : ComprasDe(c) = 1
    /\ tasa_retencion = <<0, 2>>

\* C7: with no customer in the Filtered View the retention rate is a defined
\* fallback value, not the NaN of a mean over nothing.
C7_RetentionFallback ==
    (Ejecutado /\ ClientesVista = {}) => tasa_retencion # NaN

\* C8 as stated: the monthly series has a row exactly for the months in which
\* the view has a transaction, in chronological order with that month's sum
\* and count, and the average monthly sales is the mean over those months.
C8_OnlyMonthsPresent ==
    (Ejecutado /\ Dashboard) =>
        /\ Len(datos_mensuales) = Cardinality(MesesVista)
        /\ {datos_mensuales[i].fecha : i \in DOMAIN datos_mensuales} = MesesVista
        /\ \A i \in DOMAIN datos_mensuales :
              /\ i > 1 => datos_mensuales[i - 1].fecha < datos_mensuales[i].fecha
              /\ datos_mensuales[i].total = VentasMes(datos_mensuales[i].fecha)
              /\ datos_mensuales[i].numero_transacciones =
                     Cardinality(FilasMes(datos_mensuales[i].fecha))
        /\ MesesVista # {} =>
              /\ ventas_mensuales # NaN
              /\ ventas_mensuales[1] * Cardinality(MesesVista) =
                     ventas_totales * ventas_mensuales[2]

\* C8 amended: the monthly series has one row for every calendar month from
\* the first to the last month in which the view has a transaction, in
\* chronological order, with that month's sum and count, both 0 for a month
\* in between that has no transaction; the average monthly sales is the mean
\* of the sums over all the months of that span.
C8_EveryMonthOfTheSpan ==
    (Ejecutado /\ Dashboard) =>
        /\ MesesVista = {} => datos_mensuales = <<>> /\ ventas_mensuales = NaN
        /\ MesesVista # {} =>
              /\ Len(datos_mensuales) = Max(MesesVista) - Min(MesesVista) + 1
              /\ \A i \in DOMAIN datos_mensuales :
                    /\ datos_mensuales[i].fecha = Min(MesesVista) + i - 1
                    /\ datos_mensuales[i].total =
                           VentasMes(datos_mensuales[i].fecha)
                    /\ datos_mensuales[i].numero_transacciones =
                           Cardinality(FilasMes(datos_mensuales[i].fecha))
              /\ ventas_mensuales # NaN
              /\ ventas_mensuales[1] * (Max(MesesVista) - Min(MesesVista) + 1) =
                     ventas_totales * ventas_mensuales[2]

C8_Witness ==
    /\ Ejecutado
    /\ Dashboard
    /\ MesesVista = {1, 3}
    /\ Len(datos_mensuales) = 3
    /\ datos_mensuales[2].total = 0
    /\ datos_mensuales[2].numero_transacciones = 0

\* C9: the Filtered View is exactly the rows of the joined table whose
\* calendar day lies between the selected start and end day, both included
\* and whatever the time of day, and that pass every membership filter.
C9_InclusiveRange ==
    Ejecutado =>
        df_filtrado = SelectSeq(df, LAMBDA r : EnRango(r) /\ EnSelecciones(r))

\* the stock of the product of a row, as df_productos.csv lists it
StockDe(pid) ==
    LET i == CHOOSE i \in DOMAIN productos : productos[i].producto_id = pid
    IN productos[i].stock[1]

ProductosVista(c) ==
    {df_filtrado[i].producto_id :
        i \in {j \in DOMAIN df_filtrado : df_filtrado[j].categoria = c}}

RECURSIVE suma_stock_productos(_)
suma_stock_productos(P) ==
    IF P = {} THEN 0
    ELSE LET x == CHOOSE x \in P : TRUE
         IN StockDe(x) + suma_stock_productos(P \ {x})

\* C10: the average stock of a category is the mean of the stock of the
\* products of that category in the view, each product counted once.
C10_StockPerProduct ==
    (estado = "ok" /\ Dashboard) =>
        \A c \in DOMAIN stock_categoria :
            /\ stock_categoria[c] # NaN
            /\ stock_categoria[c][1] * Cardinality(ProductosVista(c)) =
                   suma_stock_productos(ProductosVista(c)) * stock_categoria[c][2]
====
